---------------------------- MODULE Spec2Model ----------------------------
(***************************************************************************)
(* PersonaMate: the entity ingestion / update pipeline (EmbeddingPipeline) *)
(* over the three stores Neo4jGraph, MongoStore and VectorStore, and the   *)
(* ChunkGenerator that derives the chunks.                                 *)
(*                                                                         *)
(* Python values are tagged records [kind, items]: a string "Eng" is       *)
(* Str("Eng"), a list is List(<<...>>), None is NoneVal.  Dicts are        *)
(* functions from keys to values.  uuid4() is a choice of an id that was   *)
(* never handed out; chunk ids are never reused, so the VectorStore        *)
(* collection is the bag of the payloads of its points.                    *)
(***************************************************************************)
EXTENDS Integers, Sequences, FiniteSets, Bags, TLC

VARIABLES
    graph,      \* Neo4j: node id -> property map of the Entity node
    docs,       \* MongoDB: entity_id -> document
    vector,     \* Qdrant: bag of point payloads
    minted,     \* entity ids uuid4() has produced
    calls,      \* per call slot: the operation, its arguments, position, locals
    cascade,    \* history: per entity, the store deletes called since the last other operation on it
    processed,  \* history: the entities a process_entity with generate_global completed for
    updates,    \* history: per entity, the update_document calls that found a document and ended
    regens,     \* history: per entity, the results of the last consecutive force-regenerating process_entity calls
    query,      \* the arguments of the last search_similar_entities call
    hits,       \* what VectorStore.search_chunks returned to it
    results,    \* what it returned
    rels,       \* Neo4j: bag of the relationships [source_id, rel_type, target_id, props]
    clock,      \* datetime.utcnow(), in ticks
    generated   \* the arguments and the result of the last ChunkGenerator.create_attribute_chunks call

searchVars == <<query, hits, results>>
vars == <<graph, docs, vector, minted, calls, cascade, processed, updates, regens, query, hits, results,
          rels, clock, generated>>

-----------------------------------------------------------------------------
(* Bounds *)

MaxChunks == 3       \* Spec: process_entity is not started on an entity holding more chunks
MaxVersion == 4      \* update_document is not started on a document at this version, or after this many calls
MaxHits == 3         \* SpecSearch: points in the collection
MaxScore == 2        \* SpecSearch: distinct similarity scores
MaxLimit == 3        \* SpecSearch: the limit argument
DeepChunks == 101    \* SpecDeep: process_entity is not started on an entity holding more chunks
MaxClock == 2        \* the ticks of the clock

-----------------------------------------------------------------------------
(* Python values *)

Str(s) == [kind |-> "str", items |-> <<s>>]
List(q) == [kind |-> "list", items |-> q]
NoneVal == [kind |-> "none", items |-> <<>>]
EmptyStr == [kind |-> "str", items |-> <<>>]
Bool(b) == [kind |-> "bool", items |-> IF b THEN <<"true">> ELSE <<>>]
IntVal(n) == [kind |-> "int", items |-> [i \in 1..n |-> "1"]]
\* datetime.utcnow().isoformat() at tick t
Time(t) == [kind |-> "time", items |-> [i \in 1..t |-> "t"]]

\* bool(value): None, "", [], False and 0 are falsy
Truthy(v) == v.kind # "none" /\ v.items # <<>>

EmptyDict == [k \in {} |-> NoneVal]

\* {**a, **b}
DictMerge(a, b) == [k \in DOMAIN a \cup DOMAIN b |-> IF k \in DOMAIN b THEN b[k] ELSE a[k]]

SeqToSet(q) == {q[i] : i \in DOMAIN q}

RECURSIVE SeqFilterKeys(_, _)
\* the members of the sequence q that are keys of dict d, in q's order
SeqFilterKeys(q, d) ==
    IF q = <<>> THEN <<>>
    ELSE (IF Head(q) \in DOMAIN d THEN <<Head(q)>> ELSE <<>>) \o SeqFilterKeys(Tail(q), d)

-----------------------------------------------------------------------------
(* ChunkGenerator (chunk_generator.py).  A text is a sequence of lines, a   *)
(* line a sequence of strings: its label (the attribute key; the code shows *)
(* it title-cased) followed by the rendered value.                          *)

ATTRIBUTE_GROUPS == <<
    <<"identity", <<"name", "full_name", "first_name", "last_name", "title", "role">> >>,
    <<"skills", <<"skills", "expertise", "technologies", "tools", "languages">> >>,
    <<"experience", <<"experience", "years_experience", "positions", "roles">> >>,
    <<"education", <<"education", "degrees", "certifications", "qualifications">> >>,
    <<"location", <<"location", "city", "country", "region", "address">> >>,
    <<"contact", <<"email", "phone", "website", "linkedin", "github">> >>,
    <<"organization", <<"company", "organization", "employer", "team", "department">> >>,
    <<"projects", <<"projects", "portfolio", "achievements", "contributions">> >> >>

\* the order in which the keys of a structured dict are visited (dict order)
KeyOrder == <<"title", "skills", "hobby", "id", "type", "name", "identity">>

\* ', '.join(map(str, value)) for a list, str(value) for a scalar
Render(v) == IF v.kind = "none" THEN <<"None">> ELSE v.items

NoAttr == <<>>

EmbeddingChunk(text, chunk_type, entity_id, attribute_name) ==
    [text |-> text, chunk_type |-> chunk_type, entity_id |-> entity_id,
     attribute_name |-> attribute_name]

RECURSIVE AttrLines(_, _)
AttrLines(keys, data) ==
    IF keys = <<>> THEN <<>>
    ELSE << <<Head(keys)>> \o Render(data[Head(keys)]) >> \o AttrLines(Tail(keys), data)

_format_attribute_group(group_name, group_keys, group_data, entity_name) ==
    << <<entity_name, group_name>> >> \o AttrLines(group_keys, group_data)

_format_single_attribute(attr_name, attr_value, entity_name) ==
    << <<entity_name, attr_name>> \o Render(attr_value) >>

RECURSIVE StructuredLines(_, _)
StructuredLines(keys, structured) ==
    IF keys = <<>> THEN <<>>
    ELSE LET k == Head(keys)
             v == structured[k]
             line == IF v.kind = "list"
                     THEN (IF v.items # <<>> THEN << <<k>> \o v.items >> ELSE <<>>)
                     ELSE (IF v.kind # "none" /\ v.items # <<>> THEN << <<k>> \o Render(v) >> ELSE <<>>)
         IN line \o StructuredLines(Tail(keys), structured)

_format_structured_data(structured) ==
    StructuredLines(SeqFilterKeys(KeyOrder, structured), structured)

\* the strings of more than 10 characters among the content values modelled
LongTexts == {"a long biography", "met at a conference"}

\* the order in which the keys of a content dict are visited
ContentOrder == <<"bio", "note">>

RECURSIVE ContentLines(_, _)
\* for key, value in content.items(): if isinstance(value, str) and len(value) > 10
ContentLines(keys, content) ==
    IF keys = <<>> THEN <<>>
    ELSE LET v == content[Head(keys)]
         IN (IF v.kind = "str" /\ v.items # <<>> /\ v.items[1] \in LongTexts
             THEN << <<Head(keys)>> \o v.items >> ELSE <<>>)
            \o ContentLines(Tail(keys), content)

\* no summary_text (the pipeline runs with use_llm_summaries = False) and no
\* narrative text in the documents modelled
create_global_chunk(entity_id, document) ==
    EmbeddingChunk(
        << <<document.entity_name, document.entity_type>> >>
            \o (IF DOMAIN document.structured # {} THEN _format_structured_data(document.structured) ELSE <<>>)
            \o ContentLines(SeqFilterKeys(ContentOrder, document.content), document.content),
        "global", entity_id, NoAttr)

RECURSIVE GroupChunks(_, _, _, _)
GroupChunks(groups, entity_id, structured_data, entity_name) ==
    IF groups = <<>> THEN <<>>
    ELSE LET group_name == Head(groups)[1]
             group_keys == SeqFilterKeys(Head(groups)[2], structured_data)
             chunk == IF group_keys # <<>>
                      THEN << EmbeddingChunk(
                                 _format_attribute_group(group_name, group_keys, structured_data, entity_name),
                                 "attribute", entity_id, <<group_name>>) >>
                      ELSE <<>>
         IN chunk \o GroupChunks(Tail(groups), entity_id, structured_data, entity_name)

RECURSIVE GroupedAttrs(_)
GroupedAttrs(groups) ==
    IF groups = <<>> THEN {} ELSE SeqToSet(Head(groups)[2]) \cup GroupedAttrs(Tail(groups))

RECURSIVE SingleChunks(_, _, _, _, _)
SingleChunks(keys, processed_attrs, entity_id, structured_data, entity_name) ==
    IF keys = <<>> THEN <<>>
    ELSE LET attr == Head(keys)
             value == structured_data[attr]
             chunk == IF attr \notin processed_attrs /\ Truthy(value)
                      THEN << EmbeddingChunk(_format_single_attribute(attr, value, entity_name),
                                             "attribute", entity_id, <<attr>>) >>
                      ELSE <<>>
         IN chunk \o SingleChunks(Tail(keys), processed_attrs, entity_id, structured_data, entity_name)

create_attribute_chunks(entity_id, structured_data, entity_name, group_attributes) ==
    LET processed_attrs == IF group_attributes
                           THEN GroupedAttrs(ATTRIBUTE_GROUPS) \cap DOMAIN structured_data
                           ELSE {}
    IN (IF group_attributes
        THEN GroupChunks(ATTRIBUTE_GROUPS, entity_id, structured_data, entity_name)
        ELSE <<>>)
       \o SingleChunks(SeqFilterKeys(KeyOrder, structured_data), processed_attrs,
                       entity_id, structured_data, entity_name)

generate_all_chunks(entity_id, document, include_global, include_attributes, group_attributes) ==
    (IF include_global THEN <<create_global_chunk(entity_id, document)>> ELSE <<>>)
    \o (IF include_attributes /\ DOMAIN document.structured # {}
        THEN create_attribute_chunks(entity_id, document.structured, document.entity_name,
                                     group_attributes)
        ELSE <<>>)

-----------------------------------------------------------------------------
(* Neo4jGraph (neo4j_graph.py): Entity nodes keyed by their id property.     *)

Get(d, k, default) == IF k \in DOMAIN d THEN d[k] ELSE default

\* the props dict add_entity builds: the keyword properties are spread last
EntityProps(entity_id, entity_type, name, properties, now) ==
    DictMerge([k \in {"id", "type", "name", "created_at"} |->
                  IF k = "id" THEN Str(entity_id) ELSE IF k = "type" THEN entity_type
                  ELSE IF k = "name" THEN name ELSE Time(now)],
              properties)

\* MERGE (e:Entity {id: $id}) SET e.k = $k for every key of props
GraphAddEntity(g, entity_id, entity_type, name, properties, now) ==
    LET props == EntityProps(entity_id, entity_type, name, properties, now)
        node == props["id"].items[1]
    IN [n \in DOMAIN g \cup {node} |->
           IF n = node THEN DictMerge(IF node \in DOMAIN g THEN g[node] ELSE EmptyDict, props)
           ELSE g[n]]

\* a keyword property named like a parameter of add_entity: Python raises
\* TypeError (multiple values for the argument) before add_entity runs
KeywordClash(properties) == DOMAIN properties \cap {"entity_id", "entity_type", "name"} # {}

GraphGetEntity(g, entity_id) == IF entity_id \in DOMAIN g THEN <<g[entity_id]>> ELSE <<>>

\* MATCH (e:Entity {id: $entity_id}) DETACH DELETE e: the node ...
GraphDeleteEntity(g, entity_id) == [n \in DOMAIN g \ {entity_id} |-> g[n]]

\* ... and the relationships that start or end at it
GraphDetach(r, entity_id) ==
    LET keep == {x \in DOMAIN r : x.source_id # entity_id /\ x.target_id # entity_id}
    IN [x \in keep |-> r[x]]

\* the relationship properties add_relationship sets: props without source_id
\* and target_id, the keyword properties spread last
RelProps(source, confidence, properties, now) ==
    DictMerge([k \in {"source", "confidence", "created_at", "updated_at"} |->
                  IF k = "source" THEN source ELSE IF k = "confidence" THEN confidence
                  ELSE Time(now)],
              properties)

Edge(source_id, rel_type, target_id, props) ==
    [source_id |-> source_id, rel_type |-> rel_type, target_id |-> target_id, props |-> props]

\* the relationships of that type from source to target
EdgesBetween(r, source_id, rel_type, target_id) ==
    {x \in DOMAIN r : x.source_id = source_id /\ x.rel_type = rel_type /\ x.target_id = target_id}

RECURSIVE SetProps(_, _, _)
\* SET r.k = $k, on each of the relationships xs of the bag r
SetProps(r, xs, rel_props) ==
    IF xs = {} THEN EmptyBag
    ELSE LET x == CHOOSE y \in xs : TRUE
         IN [y \in {[x EXCEPT !.props = DictMerge(@, rel_props)]} |-> r[x]]
            (+) SetProps(r, xs \ {x}, rel_props)

\* a relationship created by every call
GraphAddRelationshipCreate(g, r, source_id, target_id, rel_type, source, confidence, properties, now) ==
    IF source_id \notin DOMAIN g \/ target_id \notin DOMAIN g THEN r
    ELSE r (+) SetToBag({Edge(source_id, rel_type, target_id,
                              RelProps(source, confidence, properties, now))})

\* MATCH (a:Entity {id: $source_id}) MATCH (b:Entity {id: $target_id})
\* MERGE (a)-[r:rel_type]->(b) SET ...
GraphAddRelationship(g, r, source_id, target_id, rel_type, source, confidence, properties, now) ==
    LET rel_props == RelProps(source, confidence, properties, now)
        found == EdgesBetween(r, source_id, rel_type, target_id)
    IN IF source_id \notin DOMAIN g \/ target_id \notin DOMAIN g THEN r
       ELSE IF found = {} THEN r (+) SetToBag({Edge(source_id, rel_type, target_id, rel_props)})
       ELSE [x \in DOMAIN r \ found |-> r[x]] (+) SetProps(r, found, rel_props)

\* result.single(): the relationship, or None when a MATCH found no node
GraphRelationshipFound(g, source_id, target_id) ==
    source_id \in DOMAIN g /\ target_id \in DOMAIN g

\* a keyword property named like an argument the caller already passes by
\* keyword: Python raises TypeError (multiple values for the argument)
RelKeywordClash(properties) ==
    DOMAIN properties \cap {"source_id", "target_id", "rel_type"} # {}

-----------------------------------------------------------------------------
(* MongoStore (mongo_store.py).  A document without a "structured" key is   *)
(* one whose structured is the empty dict: every reader uses                *)
(* .get("structured", {}).                                                   *)

\* doc["metadata"] of create_document; metadata is <<>> for None
DocMetadata(metadata, now) ==
    DictMerge([k \in {"created_at", "updated_at", "source", "tags"} |->
                  IF k \in {"created_at", "updated_at"} THEN Time(now)
                  ELSE IF k = "source" THEN Str("user_input")
                  ELSE IF metadata # <<>> THEN Get(metadata[1], "tags", List(<<>>)) ELSE List(<<>>)],
              IF metadata # <<>> THEN metadata[1] ELSE EmptyDict)

MongoCreateDocument(d, entity_id, entity_type, entity_name, content, structured, metadata, now) ==
    [e \in DOMAIN d \cup {entity_id} |->
        IF e = entity_id
        THEN [entity_id |-> entity_id, entity_type |-> entity_type, entity_name |-> entity_name,
              content |-> content, structured |-> structured,
              metadata |-> DocMetadata(metadata, now), version |-> 1]
        ELSE d[e]]

\* a find that answers with an empty document where there is none
MongoGetDocumentOrBlank(d, entity_id) ==
    IF entity_id \in DOMAIN d THEN <<d[entity_id]>>
    ELSE <<[entity_id |-> entity_id, entity_type |-> "", entity_name |-> "", content |-> EmptyDict,
            structured |-> EmptyDict, metadata |-> DocMetadata(<<>>, 0), version |-> 0]>>

MongoGetDocument(d, entity_id) == IF entity_id \in DOMAIN d THEN <<d[entity_id]>> ELSE <<>>

MongoDeleteDocument(d, entity_id) == [e \in DOMAIN d \ {entity_id} |-> d[e]]

\* the passed map alone, whatever merge says
UpdateStructuredReplace(existing, structured, merge) == structured

\* update_data["structured"] of update_document, from the document it read
UpdateStructured(existing, structured, merge) ==
    IF merge THEN DictMerge(existing.structured, structured) ELSE structured

\* update_data["content"]
UpdateContent(existing, content, merge) ==
    IF merge THEN DictMerge(existing.content, content) ELSE content

\* update_data["metadata"]: always merged
UpdateMetadata(existing, metadata, now) ==
    [DictMerge(existing.metadata, metadata) EXCEPT !["updated_at"] = Time(now)]

\* update_data["version"]
UpdateVersion(existing) == existing.version + 1

\* update_data holds "metadata.updated_at" always and "metadata" when metadata
\* is passed: MongoDB rejects a $set of a path and its prefix (conflict)
UpdateConflict(has_metadata) == has_metadata

\* update_data without its "metadata" entry; content and structured are <<>> for None
UpdateData(existing, content, structured, merge, now) ==
    [updated_at |-> Time(now),
     content |-> IF content # <<>> THEN <<UpdateContent(existing, content[1], merge)>> ELSE <<>>,
     structured |-> IF structured # <<>> THEN <<UpdateStructured(existing, structured[1], merge)>>
                    ELSE <<>>,
     version |-> UpdateVersion(existing)]

\* update_one({"entity_id": entity_id}, {"$set": update_data})
MongoUpdateOne(d, entity_id, update_data) ==
    IF entity_id \notin DOMAIN d THEN d
    ELSE [d EXCEPT ![entity_id].metadata = [@ EXCEPT !["updated_at"] = update_data.updated_at],
                   ![entity_id].content =
                       IF update_data.content # <<>> THEN update_data.content[1] ELSE @,
                   ![entity_id].structured =
                       IF update_data.structured # <<>> THEN update_data.structured[1] ELSE @,
                   ![entity_id].version = update_data.version]

-----------------------------------------------------------------------------
(* VectorStore (vector_store.py): the collection as a bag of payloads; every *)
(* point has its own fresh chunk_id, and doc_id equals entity_id.           *)

SCROLL_LIMIT == 100

RECURSIVE SeqToBag(_)
SeqToBag(q) == IF q = <<>> THEN EmptyBag ELSE SetToBag({Head(q)}) (+) SeqToBag(Tail(q))

\* upsert of one point per chunk
VectorAddChunksBatch(v, chunks) == v (+) SeqToBag(chunks)

\* the points the filter (entity_id, optional chunk_type) matches
MatchingChunks(v, entity_id, chunk_type) ==
    LET keep == {p \in DOMAIN v : p.entity_id = entity_id
                                   /\ (chunk_type # <<>> => p.chunk_type = chunk_type[1])}
    IN [p \in keep |-> v[p]]

\* scroll(filter, limit): at most limit of the matching points
Scroll(v, entity_id, chunk_type, limit) ==
    LET m == MatchingChunks(v, entity_id, chunk_type)
        n == BagCardinality(m)
    IN IF n <= limit THEN {m}
       ELSE {m (-) x : x \in {y \in SubBag(m) : BagCardinality(y) = n - limit}}

\* the pages scroll can hand to delete_entity_chunks
DeletePages(v, entity_id, chunk_type) == Scroll(v, entity_id, chunk_type, SCROLL_LIMIT)

ChunkCount(v, entity_id) == BagCardinality(MatchingChunks(v, entity_id, <<>>))
GlobalCount(v, entity_id) == BagCardinality(MatchingChunks(v, entity_id, <<"global">>))

-----------------------------------------------------------------------------
(* Inputs *)

EntityIds == {"e1", "e2"}
\* the ids uuid4() hands out to one caller, in order
OneId == <<"e1">>
CallIds == {"c1", "c2"}
EntityTypes == {"Person"}
EntityNames == {"Alice"}

Title == [k \in {"title"} |-> Str("Eng")]
TitleSkills == [k \in {"title", "skills"} |-> IF k = "title" THEN Str("Eng") ELSE List(<<>>)]
IdKey == [k \in {"id"} |-> Str("x")]
Hobby == [k \in {"hobby"} |-> Str("chess")]
\* a metadata argument
Tags == [k \in {"tags"} |-> List(<<"a">>)]
Retitle == [k \in {"title"} |-> Str("CTO")]
Bio == [k \in {"bio"} |-> Str("a long biography")]
BioNote == [k \in {"bio", "note"} |-> IF k = "bio" THEN Str("tbd") ELSE Str("met at a conference")]
\* content and structured of the MongoStore operations called directly
ContentInputs == {Bio, BioNote}
MongoStructuredInputs == {Hobby, Retitle}

\* structured_data of add_new_entity
StructuredInputs == {EmptyDict, Title, TitleSkills, IdKey}
\* updated_attributes of update_entity_embeddings, structured of update_document
UpdateInputs == {Hobby}
ChunkTypes == {<<>>, <<"global">>, <<"attribute">>}

-----------------------------------------------------------------------------
(* Calls in progress *)

NoRet == [kind |-> "none", chunk_count |-> 0, global_chunks |-> 0, attribute_chunks |-> 0,
          flag |-> FALSE]
Raised == [NoRet EXCEPT !.kind = "raise"]
Returned(flag) == [NoRet EXCEPT !.kind = "value", !.flag = flag]

IdleCall ==
    [op |-> "none", pc |-> "idle", entity_id |-> "", entity_type |-> "", entity_name |-> "",
     structured |-> EmptyDict, has_structured |-> FALSE, has_metadata |-> FALSE, merge |-> FALSE,
     content |-> EmptyDict, has_content |-> FALSE, metadata |-> EmptyDict,
     target_id |-> "", rel_type |-> "", properties |-> EmptyDict, relationships |-> <<>>,
     entity_ids |-> <<>>, batch_results |-> <<>>,
     generate_global |-> FALSE, generate_attributes |-> FALSE, force_regenerate |-> FALSE,
     existing |-> <<>>, document |-> <<>>, entity |-> <<>>, ret |-> NoRet]

AllIdle == \A c \in CallIds : calls[c].pc = "idle"
Quiet == \A c \in CallIds : calls[c].pc \in {"idle", "done"}

RECURSIVE FirstUnminted(_, _)
\* uuid4(): an id no earlier call got (the first of the pool q, ids being opaque)
FirstUnminted(q, used) ==
    IF q = <<>> THEN {} ELSE IF Head(q) \notin used THEN {Head(q)} ELSE FirstUnminted(Tail(q), used)

Last2(q) == IF Len(q) <= 2 THEN q ELSE SubSeq(q, Len(q) - 1, Len(q))

NoChunks == [structured_data |-> EmptyDict, group_attributes |-> FALSE, called |-> FALSE,
             chunks |-> <<>>]

NoQuery == [entity_type |-> <<>>, search_global_only |-> FALSE, limit |-> 0]

Init ==
    /\ graph = [n \in {} |-> EmptyDict]
    /\ docs = [e \in {} |-> EmptyDict]
    /\ vector = EmptyBag
    /\ minted = {}
    /\ calls = [c \in CallIds |-> IdleCall]
    /\ cascade = [e \in EntityIds |-> {}]
    /\ processed = {}
    /\ updates = [e \in EntityIds |-> 0]
    /\ regens = [e \in EntityIds |-> <<>>]
    /\ query = NoQuery
    /\ hits = <<>>
    /\ results = <<>>
    /\ rels = EmptyBag
    /\ clock = 0
    /\ generated = NoChunks

\* a call on entity e starts: the history of e's deletes and regenerations ends
Touch(e, keep_regens) ==
    /\ cascade' = [cascade EXCEPT ![e] = {}]
    /\ regens' = IF keep_regens THEN regens ELSE [regens EXCEPT ![e] = <<>>]

-----------------------------------------------------------------------------
(* EmbeddingPipeline.add_new_entity *)

BeginAddNewEntity(c, pool, entity_type, entity_name, structured_data, relationships) ==
    /\ calls[c].pc = "idle"
    /\ \E id \in FirstUnminted(pool, minted) :
          /\ minted' = minted \cup {id}
          /\ calls' = [calls EXCEPT ![c] =
                 [IdleCall EXCEPT !.op = "add_new_entity", !.pc = "ane_graph", !.entity_id = id,
                                  !.entity_type = entity_type, !.entity_name = entity_name,
                                  !.structured = structured_data,
                                  !.relationships = relationships, !.generate_global = TRUE,
                                  !.generate_attributes = TRUE, !.force_regenerate = FALSE]]
          /\ Touch(id, FALSE)
    /\ UNCHANGED <<graph, docs, vector, processed, updates, searchVars, rels, clock, generated>>

\* 1. self.neo4j.add_entity(entity_id=..., entity_type=..., name=..., **structured_data)
AneAddEntity(c) ==
    LET k == calls[c] IN
    /\ k.pc = "ane_graph"
    /\ IF KeywordClash(k.structured)
       THEN /\ calls' = [calls EXCEPT ![c].pc = "done", ![c].ret = Raised]
            /\ UNCHANGED graph
       ELSE /\ graph' = GraphAddEntity(graph, k.entity_id, Str(k.entity_type), Str(k.entity_name),
                                       k.structured, clock)
            /\ calls' = [calls EXCEPT ![c].pc = "ane_doc"]
    /\ UNCHANGED <<docs, vector, minted, cascade, processed, updates, regens, searchVars, rels, clock, generated>>

\* 2. self.mongo.create_document(...); then 3. if relationships: ..., and
\* 4. self.process_entity(entity_id)
AneCreateDocument(c) ==
    LET k == calls[c] IN
    /\ k.pc = "ane_doc"
    /\ docs' = MongoCreateDocument(docs, k.entity_id, k.entity_type, k.entity_name, EmptyDict,
                                    k.structured, <<>>, clock)
    /\ calls' = [calls EXCEPT ![c].pc = IF k.relationships # <<>> THEN "ane_rel" ELSE "pe_get"]
    /\ UNCHANGED <<graph, vector, minted, cascade, processed, updates, regens, searchVars, rels, clock, generated>>

\* a create_document failure that is compensated by deleting the node again
AneCreateDocumentUndone(c) ==
    /\ calls[c].pc = "ane_doc"
    /\ graph' = GraphDeleteEntity(graph, calls[c].entity_id)
    /\ calls' = [calls EXCEPT ![c].pc = "done", ![c].ret = Raised]
    /\ UNCHANGED <<docs, vector, minted, cascade, processed, updates, regens, searchVars, rels, clock, generated>>

\* 2. self._collection.insert_one(doc) raises (the server is unreachable or
\* rejects the write): nothing in add_new_entity catches it
AneCreateDocumentFails(c) ==
    /\ calls[c].pc = "ane_doc"
    /\ calls' = [calls EXCEPT ![c].pc = "done", ![c].ret = Raised]
    /\ UNCHANGED <<graph, docs, vector, minted, cascade, processed, updates, regens, searchVars, rels, clock, generated>>

\* the loop of step 3 goes on with the next rel_tuple, and past the last one
\* to 4. self.process_entity(entity_id)
AneNextRelationship(k) ==
    [k EXCEPT !.relationships = Tail(k.relationships),
              !.pc = IF Len(k.relationships) > 1 THEN "ane_rel" ELSE "pe_get"]

\* the loop of step 3 is left by an exception of add_relationship
AneRelationshipRaised(k) == [k EXCEPT !.pc = "done", !.ret = Raised]

\* 3. for rel_tuple in relationships: one turn of the loop.  A tuple shorter
\* than two is skipped; rel_metadata is spread into the keywords of
\* add_relationship, where source and confidence are parameters
AneAddRelationship(c) ==
    LET k == calls[c]
        rel_tuple == Head(k.relationships)
        rel_metadata == IF Len(rel_tuple) > 2 THEN rel_tuple[3] ELSE EmptyDict
        properties == [p \in DOMAIN rel_metadata \ {"source", "confidence"} |-> rel_metadata[p]]
    IN
    /\ k.pc = "ane_rel"
    /\ IF Len(rel_tuple) < 2
       THEN /\ calls' = [calls EXCEPT ![c] = AneNextRelationship(k)]
            /\ UNCHANGED rels
       ELSE IF RelKeywordClash(rel_metadata)
       THEN /\ calls' = [calls EXCEPT ![c] = AneRelationshipRaised(k)]
            /\ UNCHANGED rels
       ELSE /\ rels' = GraphAddRelationship(graph, rels, k.entity_id, rel_tuple[1], rel_tuple[2],
                                            Get(rel_metadata, "source", Str("user_input")),
                                            Get(rel_metadata, "confidence", IntVal(1)),
                                            properties, clock)
            /\ calls' = [calls EXCEPT ![c] = AneNextRelationship(k)]
    /\ UNCHANGED <<graph, docs, vector, minted, cascade, processed, updates, regens, searchVars, clock, generated>>

\* 3. session.run(query, **props) of add_relationship raises (the server is
\* unreachable or rejects the query): nothing in add_new_entity catches it
AneAddRelationshipFails(c) ==
    LET k == calls[c] IN
    /\ k.pc = "ane_rel"
    /\ Len(Head(k.relationships)) >= 2
    /\ calls' = [calls EXCEPT ![c] = AneRelationshipRaised(k)]
    /\ UNCHANGED <<graph, docs, vector, minted, cascade, processed, updates, regens, searchVars, rels, clock, generated>>

-----------------------------------------------------------------------------
(* EmbeddingPipeline.process_entity *)

BeginProcessEntity(c, entity_id, generate_global, generate_attributes, force_regenerate, cap) ==
    /\ calls[c].pc = "idle"
    /\ force_regenerate \/ ChunkCount(vector, entity_id) <= cap
    /\ calls' = [calls EXCEPT ![c] =
           [IdleCall EXCEPT !.op = "process_entity", !.pc = "pe_get", !.entity_id = entity_id,
                            !.generate_global = generate_global,
                            !.generate_attributes = generate_attributes,
                            !.force_regenerate = force_regenerate]]
    /\ Touch(entity_id, force_regenerate)
    /\ UNCHANGED <<graph, docs, vector, minted, processed, updates, searchVars, rels, clock, generated>>

\* where process_entity returns or raises to: its caller, or the try block of
\* process_batch
PeDone(k) == IF k.op = "process_batch" THEN "pb_collect" ELSE "done"

\* a process_entity that deletes the chunks before it looks for the document
PeGetDocumentAfterDelete(c) ==
    LET k == calls[c]
        document == MongoGetDocument(docs, k.entity_id) IN
    /\ k.pc = "pe_get"
    /\ \E page \in DeletePages(vector, k.entity_id, <<>>) :
          vector' = IF k.force_regenerate THEN vector (-) page ELSE vector
    /\ calls' = IF document = <<>>
                THEN [calls EXCEPT ![c].pc = "done", ![c].ret = Raised]
                ELSE [calls EXCEPT ![c].document = document, ![c].pc = "pe_add"]
    /\ UNCHANGED <<graph, docs, minted, cascade, processed, updates, regens, searchVars, rels, clock, generated>>

\* document = self.mongo.get_document(entity_id); raise ValueError if absent
PeGetDocument(c) ==
    LET k == calls[c]
        document == MongoGetDocument(docs, k.entity_id) IN
    /\ k.pc = "pe_get"
    /\ calls' = IF document = <<>>
                THEN [calls EXCEPT ![c].pc = PeDone(k), ![c].ret = Raised]
                ELSE [calls EXCEPT ![c].document = document,
                                   ![c].pc = IF k.force_regenerate THEN "pe_delete" ELSE "pe_add"]
    /\ UNCHANGED <<graph, docs, vector, minted, cascade, processed, updates, regens, searchVars, rels, clock, generated>>

\* if force_regenerate: self.vector.delete_entity_chunks(entity_id)
PeDeleteChunks(c) ==
    LET k == calls[c] IN
    /\ k.pc = "pe_delete"
    /\ \E page \in DeletePages(vector, k.entity_id, <<>>) : vector' = vector (-) page
    /\ calls' = [calls EXCEPT ![c].pc = "pe_add"]
    /\ UNCHANGED <<graph, docs, minted, cascade, processed, updates, regens, searchVars, rels, clock, generated>>

\* the dict process_entity returns
ProcessResult(chunks) ==
    [NoRet EXCEPT !.kind = "value", !.chunk_count = Len(chunks),
        !.global_chunks = Cardinality({i \in DOMAIN chunks : chunks[i].chunk_type = "global"}),
        !.attribute_chunks = Cardinality({i \in DOMAIN chunks : chunks[i].chunk_type = "attribute"})]

\* chunks = generate_all_chunks(...); chunk_ids = self.vector.add_chunks_batch(chunk_dicts)
PeAddChunks(c) ==
    LET k == calls[c]
        chunks == generate_all_chunks(k.entity_id, k.document[1], k.generate_global,
                                      k.generate_attributes, TRUE) IN
    /\ k.pc = "pe_add"
    /\ vector' = VectorAddChunksBatch(vector, chunks)
    /\ calls' = [calls EXCEPT ![c].pc = "pe_meta_get", ![c].ret = ProcessResult(chunks)]
    /\ UNCHANGED <<graph, docs, minted, cascade, processed, updates, regens, searchVars, rels, clock, generated>>

\* _update_neo4j_metadata: entity = self.neo4j.get_entity(entity_id)
PeMetaGet(c) ==
    LET k == calls[c]
        entity == GraphGetEntity(graph, k.entity_id) IN
    /\ k.pc = "pe_meta_get"
    /\ calls' = [calls EXCEPT ![c].entity = entity,
                              ![c].pc = IF entity = <<>> THEN PeDone(k) ELSE "pe_meta_set"]
    /\ UNCHANGED <<graph, docs, vector, minted, cascade, processed, updates, regens, searchVars, rels, clock, generated>>

\* the keyword properties _update_neo4j_metadata passes to add_entity
MetadataProps(chunk_count) ==
    [p \in {"embeddings_generated", "embedding_chunk_count"} |->
        IF p = "embeddings_generated" THEN Bool(TRUE) ELSE IntVal(chunk_count)]

\* _update_neo4j_metadata: if entity: self.neo4j.add_entity(...)
PeMetaSet(c) ==
    LET k == calls[c] IN
    /\ k.pc = "pe_meta_set"
    /\ graph' = GraphAddEntity(graph, k.entity_id, Get(k.entity[1], "type", Str("Entity")),
                               Get(k.entity[1], "name", Str("Unknown")),
                               MetadataProps(k.ret.chunk_count), clock)
    /\ calls' = [calls EXCEPT ![c].pc = PeDone(k)]
    /\ UNCHANGED <<docs, vector, minted, cascade, processed, updates, regens, searchVars, rels, clock, generated>>

-----------------------------------------------------------------------------
(* EmbeddingPipeline.process_batch, called with a list of entity_ids *)

\* the slot of one entity: the dict process_entity returned, or
\* {"entity_id": entity_id, "error": str(e)}
BatchResult(entity_id, ret) ==
    [entity_id |-> entity_id, error |-> ret.kind = "raise", chunk_count |-> ret.chunk_count,
     global_chunks |-> ret.global_chunks, attribute_chunks |-> ret.attribute_chunks]

\* results = []; for entity_id in entity_ids: try: self.process_entity(...)
BeginProcessBatch(c, entity_ids, force_regenerate, cap) ==
    /\ calls[c].pc = "idle"
    /\ \A i \in DOMAIN entity_ids : force_regenerate \/ ChunkCount(vector, entity_ids[i]) <= cap
    /\ calls' = [calls EXCEPT ![c] =
           [IdleCall EXCEPT !.op = "process_batch",
                            !.pc = IF entity_ids = <<>> THEN "done" ELSE "pe_get",
                            !.entity_ids = entity_ids,
                            !.entity_id = IF entity_ids = <<>> THEN "" ELSE entity_ids[1],
                            !.generate_global = TRUE, !.generate_attributes = TRUE,
                            !.force_regenerate = force_regenerate,
                            !.ret = IF entity_ids = <<>> THEN Returned(TRUE) ELSE NoRet]]
    /\ UNCHANGED <<graph, docs, vector, minted, cascade, processed, updates, regens, searchVars, rels, clock, generated>>

\* a process_batch that lets the exception of process_entity end the batch
PbCollectAborting(c) ==
    LET k == calls[c]
        n == Len(k.batch_results) + 1 IN
    /\ k.pc = "pb_collect"
    /\ calls' = [calls EXCEPT ![c] =
           IF k.ret.kind = "raise" THEN [k EXCEPT !.pc = "done"]
           ELSE IF n < Len(k.entity_ids)
           THEN [k EXCEPT !.batch_results = Append(@, BatchResult(k.entity_id, k.ret)),
                          !.entity_id = k.entity_ids[n + 1], !.pc = "pe_get", !.ret = NoRet,
                          !.document = <<>>, !.entity = <<>>]
           ELSE [k EXCEPT !.batch_results = Append(@, BatchResult(k.entity_id, k.ret)),
                          !.pc = "done", !.ret = Returned(TRUE)]]
    /\ UNCHANGED <<graph, docs, vector, minted, cascade, processed, updates, regens, searchVars, rels, clock, generated>>

\* results.append(result), or except Exception: results.append({... "error"});
\* then the next entity_id, and return results after the last one
PbCollect(c) ==
    LET k == calls[c]
        n == Len(k.batch_results) + 1 IN
    /\ k.pc = "pb_collect"
    /\ calls' = [calls EXCEPT ![c] =
           IF n < Len(k.entity_ids)
           THEN [k EXCEPT !.batch_results = Append(@, BatchResult(k.entity_id, k.ret)),
                          !.entity_id = k.entity_ids[n + 1], !.pc = "pe_get", !.ret = NoRet,
                          !.document = <<>>, !.entity = <<>>]
           ELSE [k EXCEPT !.batch_results = Append(@, BatchResult(k.entity_id, k.ret)),
                          !.pc = "done", !.ret = Returned(TRUE)]]
    /\ UNCHANGED <<graph, docs, vector, minted, cascade, processed, updates, regens, searchVars, rels, clock, generated>>

-----------------------------------------------------------------------------
(* MongoStore.update_document, called directly or by update_entity_embeddings *)

VersionRoom(entity_id) ==
    /\ updates[entity_id] < MaxVersion
    /\ entity_id \in DOMAIN docs => docs[entity_id].version < MaxVersion

BeginUpdateDocument(c, entity_id, content, structured, metadata, merge) ==
    /\ calls[c].pc = "idle"
    /\ VersionRoom(entity_id)
    /\ calls' = [calls EXCEPT ![c] =
           [IdleCall EXCEPT !.op = "update_document", !.pc = "ud_read", !.entity_id = entity_id,
                            !.has_structured = structured # <<>>,
                            !.structured = IF structured # <<>> THEN structured[1] ELSE EmptyDict,
                            !.has_content = content # <<>>,
                            !.content = IF content # <<>> THEN content[1] ELSE EmptyDict,
                            !.has_metadata = metadata # <<>>,
                            !.metadata = IF metadata # <<>> THEN metadata[1] ELSE EmptyDict,
                            !.merge = merge]]
    /\ Touch(entity_id, FALSE)
    /\ UNCHANGED <<graph, docs, vector, minted, processed, updates, searchVars, rels, clock, generated>>

\* existing = self.get_document(entity_id); if not existing: return False
UdRead(c) ==
    LET k == calls[c]
        existing == MongoGetDocument(docs, k.entity_id) IN
    /\ k.pc = "ud_read"
    /\ calls' = IF existing # <<>>
                THEN [calls EXCEPT ![c].existing = existing, ![c].pc = "ud_write"]
                ELSE IF k.op = "update_document"
                THEN [calls EXCEPT ![c].pc = "done", ![c].ret = Returned(FALSE)]
                ELSE [calls EXCEPT ![c].pc = "uee_get"]
    /\ UNCHANGED <<graph, docs, vector, minted, cascade, processed, updates, regens, searchVars, rels, clock, generated>>

\* result = self._collection.update_one(...); return result.modified_count > 0
UdWrite(c) ==
    LET k == calls[c] IN
    /\ k.pc = "ud_write"
    /\ IF UpdateConflict(k.has_metadata)
       THEN /\ calls' = [calls EXCEPT ![c].pc = "done", ![c].ret = Raised]
            /\ UNCHANGED docs
       ELSE /\ docs' = MongoUpdateOne(docs, k.entity_id,
                                      UpdateData(k.existing[1],
                                                 IF k.has_content THEN <<k.content>> ELSE <<>>,
                                                 IF k.has_structured THEN <<k.structured>> ELSE <<>>,
                                                 k.merge, clock))
            /\ calls' = IF k.op = "update_document"
                        THEN [calls EXCEPT ![c].pc = "done",
                                           ![c].ret = Returned(k.entity_id \in DOMAIN docs)]
                        ELSE [calls EXCEPT ![c].pc = "uee_get"]
    /\ updates' = [updates EXCEPT ![k.entity_id] = @ + 1]
    /\ UNCHANGED <<graph, vector, minted, cascade, processed, regens, searchVars, rels, clock, generated>>

-----------------------------------------------------------------------------
(* EmbeddingPipeline.update_entity_embeddings *)

BeginUpdateEntityEmbeddings(c, entity_id, updated_attributes, regenerate_all, cap) ==
    LET truthy == updated_attributes # <<>> /\ DOMAIN updated_attributes[1] # {} IN
    /\ calls[c].pc = "idle"
    /\ truthy => VersionRoom(entity_id)
    /\ regenerate_all \/ ChunkCount(vector, entity_id) <= cap
    /\ calls' = [calls EXCEPT ![c] =
           [IdleCall EXCEPT !.op = "update_entity_embeddings",
                            !.pc = IF truthy THEN "ud_read" ELSE "pe_get",
                            !.entity_id = entity_id,
                            !.has_structured = truthy,
                            !.structured = IF truthy THEN updated_attributes[1] ELSE EmptyDict,
                            !.merge = TRUE, !.generate_global = TRUE,
                            !.generate_attributes = TRUE, !.force_regenerate = regenerate_all]]
    /\ Touch(entity_id, FALSE)
    /\ UNCHANGED <<graph, docs, vector, minted, processed, updates, searchVars, rels, clock, generated>>

\* entity = self.neo4j.get_entity(entity_id)
UeeGetEntity(c) ==
    LET k == calls[c]
        entity == GraphGetEntity(graph, k.entity_id) IN
    /\ k.pc = "uee_get"
    /\ calls' = [calls EXCEPT ![c].entity = entity,
                              ![c].pc = IF entity = <<>> THEN "pe_get" ELSE "uee_add"]
    /\ UNCHANGED <<graph, docs, vector, minted, cascade, processed, updates, regens, searchVars, rels, clock, generated>>

\* if entity: self.neo4j.add_entity(entity_id=..., ..., **updated_attributes)
UeeAddEntity(c) ==
    LET k == calls[c] IN
    /\ k.pc = "uee_add"
    /\ IF KeywordClash(k.structured)
       THEN /\ calls' = [calls EXCEPT ![c].pc = "done", ![c].ret = Raised]
            /\ UNCHANGED graph
       ELSE /\ graph' = GraphAddEntity(graph, k.entity_id, Get(k.entity[1], "type", Str("Entity")),
                                       Get(k.entity[1], "name", Str("Unknown")), k.structured, clock)
            /\ calls' = [calls EXCEPT ![c].pc = "pe_get"]
    /\ UNCHANGED <<docs, vector, minted, cascade, processed, updates, regens, searchVars, rels, clock, generated>>

-----------------------------------------------------------------------------
(* A call returns to its caller *)

RegenRecord(k) ==
    [chunk_count |-> k.ret.chunk_count, global_chunks |-> k.ret.global_chunks,
     attribute_chunks |-> k.ret.attribute_chunks, stored |-> ChunkCount(vector, k.entity_id)]

Return(c) ==
    LET k == calls[c]
        ran == k.ret.kind = "value"
               /\ k.op \in {"add_new_entity", "process_entity", "update_entity_embeddings"} IN
    /\ k.pc = "done"
    /\ calls' = [calls EXCEPT ![c] = IdleCall]
    /\ processed' = IF ran /\ k.generate_global THEN processed \cup {k.entity_id} ELSE processed
    /\ regens' = IF k.op = "process_entity" /\ k.force_regenerate
                 THEN [regens EXCEPT ![k.entity_id] =
                          IF ran THEN Last2(Append(@, RegenRecord(k))) ELSE <<>>]
                 ELSE regens
    /\ UNCHANGED <<graph, docs, vector, minted, cascade, updates, searchVars, rels, clock, generated>>

-----------------------------------------------------------------------------
(* The stores' delete operations, called directly *)

DeleteEntity(entity_id) ==
    /\ graph' = GraphDeleteEntity(graph, entity_id)
    /\ rels' = GraphDetach(rels, entity_id)
    /\ cascade' = [cascade EXCEPT ![entity_id] = @ \cup {"graph"}]
    /\ regens' = [regens EXCEPT ![entity_id] = <<>>]
    /\ UNCHANGED <<docs, vector, minted, calls, processed, updates, searchVars, clock, generated>>

DeleteDocument(entity_id) ==
    /\ docs' = MongoDeleteDocument(docs, entity_id)
    /\ cascade' = [cascade EXCEPT ![entity_id] = @ \cup {"document"}]
    /\ regens' = [regens EXCEPT ![entity_id] = <<>>]
    /\ UNCHANGED <<graph, vector, minted, calls, processed, updates, searchVars, rels, clock, generated>>

\* MongoStore.create_document called directly, for an entity without a document
CreateDocument(entity_id, entity_type, entity_name, content, structured, metadata) ==
    /\ entity_id \notin DOMAIN docs
    /\ docs' = MongoCreateDocument(docs, entity_id, entity_type, entity_name, content, structured,
                                    metadata, clock)
    /\ cascade' = [cascade EXCEPT ![entity_id] = {}]
    /\ UNCHANGED <<graph, vector, minted, calls, processed, updates, regens, searchVars, rels,
                   clock, generated>>

\* Neo4jGraph.add_entity called directly
AddEntity(c, entity_id, entity_type, name, properties) ==
    /\ calls[c].pc = "idle"
    /\ IF KeywordClash(properties)
       THEN /\ UNCHANGED graph
            /\ calls' = [calls EXCEPT ![c] =
                   [IdleCall EXCEPT !.op = "add_entity", !.pc = "done", !.entity_id = entity_id,
                                    !.entity_type = entity_type, !.entity_name = name,
                                    !.properties = properties, !.ret = Raised]]
       ELSE /\ graph' = GraphAddEntity(graph, entity_id, Str(entity_type), Str(name), properties,
                                       clock)
            /\ calls' = [calls EXCEPT ![c] =
                   [IdleCall EXCEPT !.op = "add_entity", !.pc = "done", !.entity_id = entity_id,
                                    !.entity_type = entity_type, !.entity_name = name,
                                    !.properties = properties, !.ret = Returned(TRUE)]]
    /\ Touch(entity_id, FALSE)
    /\ UNCHANGED <<docs, vector, minted, processed, updates, searchVars, rels, clock, generated>>

\* Neo4jGraph.add_relationship called directly, source and confidence left at
\* their defaults
AddRelationship(c, source_id, target_id, rel_type, properties) ==
    /\ calls[c].pc = "idle"
    /\ IF RelKeywordClash(properties)
       THEN /\ UNCHANGED rels
            /\ calls' = [calls EXCEPT ![c] =
                   [IdleCall EXCEPT !.op = "add_relationship", !.pc = "done",
                                    !.entity_id = source_id, !.target_id = target_id,
                                    !.rel_type = rel_type, !.properties = properties,
                                    !.ret = Raised]]
       ELSE /\ rels' = GraphAddRelationship(graph, rels, source_id, target_id, rel_type,
                                            Str("user_input"), IntVal(1), properties, clock)
            /\ calls' = [calls EXCEPT ![c] =
                   [IdleCall EXCEPT !.op = "add_relationship", !.pc = "done",
                                    !.entity_id = source_id, !.target_id = target_id,
                                    !.rel_type = rel_type, !.properties = properties,
                                    !.ret = Returned(GraphRelationshipFound(graph, source_id,
                                                                            target_id))]]
    /\ UNCHANGED <<graph, docs, vector, minted, cascade, processed, updates, regens, searchVars,
                   clock, generated>>

\* time passes
Tick ==
    /\ clock < MaxClock
    /\ clock' = clock + 1
    /\ UNCHANGED <<graph, docs, vector, minted, calls, cascade, processed, updates, regens,
                   searchVars, rels, generated>>

DeleteEntityChunks(entity_id, chunk_type) ==
    /\ \E page \in DeletePages(vector, entity_id, chunk_type) : vector' = vector (-) page
    /\ cascade' = [cascade EXCEPT ![entity_id] = IF chunk_type = <<>> THEN @ \cup {"chunks"} ELSE @]
    /\ regens' = [regens EXCEPT ![entity_id] = <<>>]
    /\ UNCHANGED <<graph, docs, minted, calls, processed, updates, searchVars, rels, clock, generated>>

-----------------------------------------------------------------------------
(* Specifications *)

AneSteps(c) == AneAddEntity(c) \/ AneCreateDocument(c)

PeSteps(c) ==
    \/ PeGetDocument(c)
    \/ PeDeleteChunks(c)
    \/ PeAddChunks(c)
    \/ PeMetaGet(c)
    \/ PeMetaSet(c)

UdSteps(c) == UdRead(c) \/ UdWrite(c)

UeeSteps(c) == UeeGetEntity(c) \/ UeeAddEntity(c)

OptUpdateInputs == {<<>>} \cup {<<u>> : u \in UpdateInputs}
OptMetadataInputs == {<<>>, <<Tags>>}

BeginPipeline(c, cap) ==
    \/ \E t \in EntityTypes, n \in EntityNames, s \in StructuredInputs :
          BeginAddNewEntity(c, OneId, t, n, s, <<>>)
    \/ \E gg \in BOOLEAN, ga \in BOOLEAN, fr \in BOOLEAN :
          BeginProcessEntity(c, "e1", gg, ga, fr, cap)
    \/ \E a \in OptUpdateInputs, ra \in BOOLEAN :
          BeginUpdateEntityEmbeddings(c, "e1", a, ra, cap)

BeginStore(c) ==
    \E s \in OptUpdateInputs, m \in OptMetadataInputs, mg \in BOOLEAN :
        BeginUpdateDocument(c, "e1", <<>>, s, m, mg)

Deletes ==
    \/ DeleteEntity("e1")
    \/ DeleteDocument("e1")
    \/ \E t \in ChunkTypes : DeleteEntityChunks("e1", t)

\* one caller, one call at a time: the pipeline operations, update_document and
\* the stores' deletes
Next ==
    \/ AllIdle /\ BeginPipeline("c1", MaxChunks)
    \/ AllIdle /\ BeginStore("c1")
    \/ AllIdle /\ Deletes
    \/ AneSteps("c1")
    \/ PeSteps("c1")
    \/ UdSteps("c1")
    \/ UeeSteps("c1")
    \/ Return("c1")

Spec == Init /\ [][Next]_vars

\* one caller, the pipeline operations only
NextPipeline ==
    \/ AllIdle /\ BeginPipeline("c1", MaxChunks)
    \/ AneSteps("c1")
    \/ PeSteps("c1")
    \/ UdSteps("c1")
    \/ UeeSteps("c1")
    \/ Return("c1")

SpecPipeline == Init /\ [][NextPipeline]_vars

\* one caller: add_new_entity, then process_entity and delete_entity_chunks calls
NextProcess ==
    \/ AllIdle /\ \E t \in EntityTypes, n \in EntityNames, s \in StructuredInputs :
                     BeginAddNewEntity("c1", OneId, t, n, s, <<>>)
    \/ AllIdle /\ \E gg \in BOOLEAN, ga \in BOOLEAN, fr \in BOOLEAN :
                     BeginProcessEntity("c1", "e1", gg, ga, fr, MaxChunks)
    \/ AllIdle /\ \E t \in ChunkTypes : DeleteEntityChunks("e1", t)
    \/ AneSteps("c1")
    \/ PeSteps("c1")
    \/ Return("c1")

SpecProcess == Init /\ [][NextProcess]_vars

\* one caller and one entity whose chunks pile up: process_entity with the
\* default generate flags, and the stores' deletes
NextDeep ==
    \/ AllIdle /\ BeginAddNewEntity("c1", OneId, "Person", "Alice", Title, <<>>)
    \/ AllIdle /\ \E fr \in BOOLEAN : BeginProcessEntity("c1", "e1", TRUE, TRUE, fr, DeepChunks)
    \/ AllIdle /\ DeleteEntity("e1")
    \/ AllIdle /\ DeleteDocument("e1")
    \/ AllIdle /\ DeleteEntityChunks("e1", <<>>)
    \/ AneSteps("c1")
    \/ PeSteps("c1")
    \/ Return("c1")

SpecDeep == Init /\ [][NextDeep]_vars

\* two callers whose update_document calls on one entity interleave
NextConc ==
    \/ AllIdle /\ BeginAddNewEntity("c1", OneId, "Person", "Alice", Title, <<>>)
    \/ \E c \in CallIds, s \in OptUpdateInputs, mg \in BOOLEAN :
          BeginUpdateDocument(c, "e1", <<>>, s, <<>>, mg)
    \/ \E c \in CallIds : UdSteps(c)
    \/ \E c \in CallIds : Return(c)
    \/ AneSteps("c1")
    \/ PeGetDocument("c1")
    \/ PeAddChunks("c1")
    \/ PeMetaGet("c1")
    \/ PeMetaSet("c1")

SpecConc == Init /\ [][NextConc]_vars

\* one caller of the MongoStore operations on e1, beside a document of e2
NextMongo ==
    \/ AllIdle /\ \E ct \in {EmptyDict, Bio} :
                     CreateDocument("e1", "Person", "Alice", ct, Title, <<>>)
    \/ AllIdle /\ CreateDocument("e2", "Org", "Acme", EmptyDict, EmptyDict, <<>>)
    \/ AllIdle /\ \E ct \in {<<>>} \cup {<<x>> : x \in ContentInputs},
                      s \in {<<>>} \cup {<<x>> : x \in MongoStructuredInputs},
                      m \in OptMetadataInputs, mg \in BOOLEAN :
                     BeginUpdateDocument("c1", "e1", ct, s, m, mg)
    \/ AllIdle /\ DeleteDocument("e1")
    \/ AllIdle /\ Tick
    \/ UdSteps("c1")
    \/ Return("c1")

SpecMongo == Init /\ [][NextMongo]_vars

\* relationship types, and keyword properties of a relationship or an entity
RelTypes == {"KNOWS", "WORKS_AT"}
RoleProp == [k \in {"role"} |-> Str("dev")]
SinceProp == [k \in {"since"} |-> Str("2020")]

\* one caller of the Neo4jGraph operations on two entities
NextGraph ==
    \/ \E e \in EntityIds, p \in {EmptyDict, RoleProp, MetadataProps(1)} :
          AddEntity("c1", e, "Person", IF e = "e1" THEN "Alice" ELSE "Bob", p)
    \/ \E t \in RelTypes, p \in {EmptyDict, RoleProp, SinceProp} :
          AddRelationship("c1", "e1", "e2", t, p)
    \/ AllIdle /\ \E e \in EntityIds : DeleteEntity(e)
    \/ AllIdle /\ Tick
    \/ Return("c1")

SpecGraph == Init /\ [][NextGraph]_vars

-----------------------------------------------------------------------------
(* add_new_entity with relationships, and with stores that may fail *)

TwoIds == <<"e1", "e2">>
ClashProp == [k \in {"rel_type"} |-> Str("LIKES")]

\* rel_tuple: (target_id, rel_type), (target_id, rel_type, rel_metadata), or
\* one too short to be used
RelTuples ==
    {<<"e1", "KNOWS">>, <<"e2", "WORKS_AT", RoleProp>>, <<"e1", "KNOWS", ClashProp>>, <<"e1">>}

MaxRels == 2
RelationshipInputs ==
    UNION {[1..n -> RelTuples] : n \in 0..MaxRels}

\* one caller adds up to two entities, each with its relationships
NextIngest ==
    \/ AllIdle /\ \E s \in {Title, IdKey}, r \in RelationshipInputs :
                      BeginAddNewEntity("c1", TwoIds, "Person", "Alice", s, r)
    \/ AneSteps("c1")
    \/ AneCreateDocumentFails("c1")
    \/ AneAddRelationship("c1")
    \/ AneAddRelationshipFails("c1")
    \/ PeGetDocument("c1")
    \/ PeAddChunks("c1")
    \/ PeMetaGet("c1")
    \/ PeMetaSet("c1")
    \/ Return("c1")

SpecIngest == Init /\ [][NextIngest]_vars

-----------------------------------------------------------------------------
(* update_entity_embeddings on an entity whose chunks pile up *)

\* one caller: add_new_entity, process_entity without force_regenerate until
\* the document is first updated, and update_entity_embeddings with
\* regenerate_all
NextRegen ==
    \/ AllIdle /\ BeginAddNewEntity("c1", OneId, "Person", "Alice", Title, <<>>)
    \/ AllIdle /\ updates["e1"] = 0
               /\ BeginProcessEntity("c1", "e1", TRUE, TRUE, FALSE, DeepChunks)
    \/ AllIdle /\ \E a \in OptUpdateInputs :
                      BeginUpdateEntityEmbeddings("c1", "e1", a, TRUE, DeepChunks)
    \/ AneSteps("c1")
    \/ PeSteps("c1")
    \/ UdSteps("c1")
    \/ UeeSteps("c1")
    \/ Return("c1")

SpecRegen == Init /\ [][NextRegen]_vars

-----------------------------------------------------------------------------
(* two callers regenerate the chunks of one entity *)

\* add_new_entity by one caller, then process_entity(E, force_regenerate=True)
\* calls of two callers whose store calls interleave
NextRace ==
    \/ AllIdle /\ BeginAddNewEntity("c1", OneId, "Person", "Alice", Title, <<>>)
    \/ \E c \in CallIds :
          /\ calls[c].pc = "idle"
          /\ \A d \in CallIds : calls[d].op # "add_new_entity"
          /\ BeginProcessEntity(c, "e1", TRUE, TRUE, TRUE, MaxChunks)
    \/ AneSteps("c1")
    \/ \E c \in CallIds : PeSteps(c)
    \/ \E c \in CallIds : Return(c)

SpecRace == Init /\ [][NextRace]_vars

-----------------------------------------------------------------------------
(* process_batch over entities with and without a document *)

MaxBatch == 3
BatchInputs ==
    UNION {[1..n -> EntityIds] : n \in 0..MaxBatch}

\* one caller adds up to two entities, deletes documents and runs batches
NextBatch ==
    \/ AllIdle /\ \E s \in {Title, TitleSkills} :
                      BeginAddNewEntity("c1", TwoIds, "Person", "Alice", s, <<>>)
    \/ AllIdle /\ \E ids \in BatchInputs, fr \in BOOLEAN :
                      BeginProcessBatch("c1", ids, fr, MaxChunks)
    \/ AllIdle /\ \E e \in EntityIds : DeleteDocument(e)
    \/ AneSteps("c1")
    \/ PeSteps("c1")
    \/ PbCollect("c1")
    \/ Return("c1")

SpecBatch == Init /\ [][NextBatch]_vars

-----------------------------------------------------------------------------
(* ChunkGenerator.create_attribute_chunks called on its own *)

\* two members of the group identity, the one member of the group skills that
\* is named like it, an attribute of no group, and an attribute of no group
\* that is named like a group
ChunkKeys == {"title", "name", "skills", "hobby", "identity"}
ChunkValues == {Str("Eng"), List(<<"a">>), EmptyStr, List(<<>>), NoneVal}
ChunkInputs ==
    UNION {[keys -> ChunkValues] : keys \in SUBSET ChunkKeys}

\* a pure function: one call per run shows every result
CreateAttributeChunks(structured_data, group_attributes) ==
    /\ ~generated.called
    /\ generated' = [structured_data |-> structured_data, group_attributes |-> group_attributes,
                     called |-> TRUE,
                     chunks |-> create_attribute_chunks("e1", structured_data, "Alice",
                                                        group_attributes)]
    /\ UNCHANGED <<graph, docs, vector, minted, calls, cascade, processed, updates, regens,
                   searchVars, rels, clock>>

NextChunks ==
    \E sd \in ChunkInputs, ga \in BOOLEAN : CreateAttributeChunks(sd, ga)

SpecChunks == Init /\ [][NextChunks]_vars

-----------------------------------------------------------------------------
(* EmbeddingPipeline.search_similar_entities.  A similarity score is an     *)
(* integer 1..MaxScore; 0 stands for a score below score_threshold.  The    *)
(* embedding of a text is a function of the text, so points with the same   *)
(* payload score the same.                                                  *)

Hit(p, score) ==
    [entity_id |-> p.entity_id, chunk_type |-> p.chunk_type,
     attribute_name |-> p.attribute_name, score |-> score, text |-> p.text]

RECURSIVE TopHits(_, _, _)
\* the limit nearest points above the threshold, nearest first
TopHits(v, sc, limit) ==
    LET cand == {p \in DOMAIN v : sc[p] > 0}
        best == {p \in cand : \A q \in cand : sc[p] >= sc[q]}
    IN IF limit = 0 \/ cand = {} THEN {<<>>}
       ELSE UNION {{<<Hit(p, sc[p])>> \o r : r \in TopHits(v (-) SetToBag({p}), sc, limit - 1)}
                   : p \in best}

\* a search whose hits come farthest first
VectorSearchChunksFarthestFirst(v, sc, chunk_type, limit) ==
    LET keep == {p \in DOMAIN v : chunk_type # <<>> => p.chunk_type = chunk_type[1]}
    IN {[i \in DOMAIN h |-> h[Len(h) + 1 - i]] : h \in TopHits([p \in keep |-> v[p]], sc, limit)}

\* VectorStore.search_chunks(query, chunk_type=..., limit=...)
VectorSearchChunks(v, sc, chunk_type, limit) ==
    LET keep == {p \in DOMAIN v : chunk_type # <<>> => p.chunk_type = chunk_type[1]}
    IN TopHits([p \in keep |-> v[p]], sc, limit)

\* entity_results as the sequence of its (key, value) items, in insertion order
ItemKeys(items) == {items[i][1] : i \in DOMAIN items}
ItemOf(items, key) == items[CHOOSE i \in DOMAIN items : items[i][1] = key][2]

\* an entry replaced by every later hit of its entity
BetterKeepLast(entity_results, result) == TRUE

\* if entity_id not in entity_results or result["score"] > entity_results[entity_id]["score"]
Better(entity_results, result) ==
    \/ result.entity_id \notin ItemKeys(entity_results)
    \/ result.score > ItemOf(entity_results, result.entity_id).score

RECURSIVE GroupFrom(_, _)
GroupFrom(entity_results, rest) ==
    IF rest = <<>> THEN entity_results
    ELSE LET result == Head(rest)
             entity_id == result.entity_id
             next == IF ~Better(entity_results, result) THEN entity_results
                     ELSE IF entity_id \in ItemKeys(entity_results)
                     THEN [i \in DOMAIN entity_results |->
                              IF entity_results[i][1] = entity_id THEN <<entity_id, result>>
                              ELSE entity_results[i]]
                     ELSE Append(entity_results, <<entity_id, result>>)
         IN GroupFrom(next, Tail(rest))

\* one entry per hit, entities not grouped
GroupByEntityAppend(search_results) ==
    [i \in DOMAIN search_results |-> <<search_results[i].entity_id, search_results[i]>>]

\* entity_results = {}; for result in results: ...
GroupByEntity(search_results) == GroupFrom(<<>>, search_results)

RECURSIVE Enrich(_, _)
\* for entity_id, result in entity_results.items(): doc = get_document(entity_id); if doc: ...
Enrich(items, d) ==
    IF items = <<>> THEN <<>>
    ELSE LET entity_id == Head(items)[1]
             result == Head(items)[2]
             doc == MongoGetDocument(d, entity_id)
         IN (IF doc # <<>>
             THEN << [entity_id |-> entity_id, entity_name |-> doc[1].entity_name,
                      entity_type |-> doc[1].entity_type, score |-> result.score,
                      matched_chunk |-> result.chunk_type,
                      matched_attribute |-> result.attribute_name] >>
             ELSE <<>>)
            \o Enrich(Tail(items), d)

search_similar_entities(search_results, d) == Enrich(GroupByEntity(search_results), d)

\* a search changes no store: one search per run shows every result
SearchSimilarEntities(sc, entity_type, search_global_only, limit) ==
    /\ query = NoQuery
    /\ \E h \in VectorSearchChunks(vector, sc, IF search_global_only THEN <<"global">> ELSE <<>>,
                                   limit) :
          /\ hits' = h
          /\ results' = search_similar_entities(h, docs)
    /\ query' = [entity_type |-> entity_type, search_global_only |-> search_global_only,
                 limit |-> limit]
    /\ UNCHANGED <<graph, docs, vector, minted, calls, cascade, processed, updates, regens, rels, clock, generated>>

\* the documents and the chunks of two entities, as add_new_entity leaves them
SearchDoc(e) ==
    IF e = "e1"
    THEN [entity_id |-> "e1", entity_type |-> "Person", entity_name |-> "Alice",
          content |-> EmptyDict, structured |-> DictMerge(Title, Hobby),
          metadata |-> DocMetadata(<<>>, 0), version |-> 1]
    ELSE [entity_id |-> "e2", entity_type |-> "Org", entity_name |-> "Acme",
          content |-> EmptyDict, structured |-> Title, metadata |-> DocMetadata(<<>>, 0),
          version |-> 1]

SearchPayloads ==
    UNION {SeqToSet(generate_all_chunks(e, SearchDoc(e), TRUE, TRUE, TRUE)) : e \in EntityIds}

\* any collection of at most MaxHits points of these entities (chunks pile up
\* under process_entity and go under delete_entity_chunks), any of their
\* documents deleted
InitSearch ==
    /\ graph = [n \in {} |-> EmptyDict]
    /\ \E present \in SUBSET EntityIds : docs = [e \in present |-> SearchDoc(e)]
    /\ \E n \in [SearchPayloads -> 0..MaxHits] :
          LET b == [p \in {q \in SearchPayloads : n[q] > 0} |-> n[p]]
          IN BagCardinality(b) <= MaxHits /\ vector = b
    /\ minted = EntityIds
    /\ calls = [c \in CallIds |-> IdleCall]
    /\ cascade = [e \in EntityIds |-> {}]
    /\ processed = {}
    /\ updates = [e \in EntityIds |-> 0]
    /\ regens = [e \in EntityIds |-> <<>>]
    /\ query = NoQuery
    /\ hits = <<>>
    /\ results = <<>>
    /\ rels = EmptyBag
    /\ clock = 0
    /\ generated = NoChunks

NextSearch ==
    \E sc \in [DOMAIN vector -> 0..MaxScore], t \in {<<>>, <<"Person">>},
       g \in BOOLEAN, limit \in 1..MaxLimit :
        SearchSimilarEntities(sc, t, g, limit)

SpecSearch == InitSearch /\ [][NextSearch]_vars

-----------------------------------------------------------------------------
(* Claims *)

\* C1: the list search_similar_entities returns holds no entity_id twice,
\* also when search_chunks returned several hits of one entity.
C1_NoEntityTwice ==
    \A i, j \in DOMAIN results : results[i].entity_id = results[j].entity_id => i = j

\* a search whose hits hold a global and an attribute chunk of one entity,
\* which is returned
C1_Witness ==
    \E i, j \in DOMAIN hits, r \in DOMAIN results :
        /\ hits[i].entity_id = hits[j].entity_id
        /\ hits[i].chunk_type = "global"
        /\ hits[j].chunk_type = "attribute"
        /\ results[r].entity_id = hits[i].entity_id

\* C2: the result kept for an entity is its highest-scoring hit: no hit of
\* the entity scores higher, and matched_chunk / matched_attribute are those
\* of a hit of the entity with the result's score.
C2_BestHitKept ==
    \A r \in DOMAIN results :
        /\ \A h \in DOMAIN hits :
              hits[h].entity_id = results[r].entity_id => results[r].score >= hits[h].score
        /\ \E h \in DOMAIN hits :
              /\ hits[h].entity_id = results[r].entity_id
              /\ hits[h].score = results[r].score
              /\ hits[h].chunk_type = results[r].matched_chunk
              /\ hits[h].attribute_name = results[r].matched_attribute

\* a returned entity with two hits of different scores and different chunks
C2_Witness ==
    \E i, j \in DOMAIN hits, r \in DOMAIN results :
        /\ hits[i].entity_id = hits[j].entity_id
        /\ hits[i].score > hits[j].score
        /\ hits[i].chunk_type # hits[j].chunk_type
        /\ results[r].entity_id = hits[i].entity_id

\* C3: once add_new_entity has returned E, GraphStore holds a node E with the
\* given name and type, DocumentStore holds a document E with the given
\* structured data, and VectorStore holds a global chunk of E, whatever the
\* attribute names in structured_data.
C3_AllStoresHoldEntity ==
    \A c \in CallIds :
        LET k == calls[c]
            entity == GraphGetEntity(graph, k.entity_id)
            document == MongoGetDocument(docs, k.entity_id)
        IN (k.op = "add_new_entity" /\ k.pc = "done" /\ k.ret.kind = "value") =>
              /\ entity # <<>>
              /\ Get(entity[1], "id", NoneVal) = Str(k.entity_id)
              /\ Get(entity[1], "name", NoneVal) = Str(k.entity_name)
              /\ Get(entity[1], "type", NoneVal) = Str(k.entity_type)
              /\ document # <<>>
              /\ document[1].entity_id = k.entity_id
              /\ document[1].structured = k.structured
              /\ GlobalCount(vector, k.entity_id) >= 1

\* C4: with no call in progress, every entity that add_new_entity,
\* process_entity or update_entity_embeddings has processed with global chunks
\* on has exactly one global chunk in VectorStore.
C4_OneGlobalChunk ==
    Quiet => \A e \in processed : GlobalCount(vector, e) = 1

\* C5: with no call in progress, the entity_id of every VectorStore record
\* names a node of GraphStore and a document of DocumentStore.
C5_ChunksReferenceEntityAndDocument ==
    Quiet => \A p \in DOMAIN vector :
                 p.entity_id \in DOMAIN graph /\ p.entity_id \in DOMAIN docs

\* C6: with no call in progress, a node whose embeddings_generated property
\* is true has at least one global chunk in VectorStore.
C6_GeneratedHasGlobalChunk ==
    Quiet => \A e \in DOMAIN graph :
                 Get(graph[e], "embeddings_generated", Bool(FALSE)) = Bool(TRUE)
                     => GlobalCount(vector, e) >= 1

\* C7: after delete_entity, delete_document and delete_entity_chunks have all
\* run on E, in any order and with no call on E since, no store holds a record
\* of E, however many chunks E had.
C7_DeleteCascade ==
    \A e \in EntityIds :
        cascade[e] = {"graph", "document", "chunks"} =>
            /\ e \notin DOMAIN graph
            /\ e \notin DOMAIN docs
            /\ ChunkCount(vector, e) = 0

\* C8: two process_entity(E, force_regenerate=True) calls in a row return the
\* same chunk_count, global_chunks and attribute_chunks, and leave the same
\* number of chunks of E in VectorStore.
C8_ForceRegenerateIdempotent ==
    \A e \in EntityIds :
        Len(regens[e]) = 2 =>
            /\ regens[e][1].chunk_count = regens[e][2].chunk_count
            /\ regens[e][1].global_chunks = regens[e][2].global_chunks
            /\ regens[e][1].attribute_chunks = regens[e][2].attribute_chunks
            /\ regens[e][1].stored = regens[e][2].stored

\* C9: an update_document call on an existing document leaves its version one
\* above the version the call found, whatever its arguments.
C9_UpdateBumpsVersion ==
    \A c \in CallIds :
        LET k == calls[c] IN
        (k.op = "update_document" /\ k.pc = "done" /\ k.existing # <<>>) =>
            /\ k.entity_id \in DOMAIN docs
            /\ docs[k.entity_id].version = k.existing[1].version + 1

\* C10: once all update_document calls on an existing document have
\* completed, interleaved or not, its version is the initial version plus
\* the number of those calls.
C10_VersionCountsUpdates ==
    Quiet => \A e \in DOMAIN docs : docs[e].version = 1 + updates[e]

\* the map new is the shallow merge of the map old with the map given
ShallowMerge(old, given, new) ==
    /\ DOMAIN new = DOMAIN old \cup DOMAIN given
    /\ \A key \in DOMAIN given : new[key] = given[key]
    /\ \A key \in DOMAIN old \ DOMAIN given : new[key] = old[key]

\* C11: update_document(entity_id, structured=S, merge=True) on an existing
\* document leaves structured the shallow merge of the stored map with S (S's
\* value for every key of S, the stored value for every other stored key, no
\* other key), and likewise content for content=C.
C11_MergeIsShallowMerge ==
    \A c \in CallIds :
        LET k == calls[c] IN
        (k.op = "update_document" /\ k.pc = "done" /\ k.existing # <<>> /\ k.merge
            /\ ~k.has_metadata) =>
            /\ k.entity_id \in DOMAIN docs
            /\ k.has_structured =>
                  ShallowMerge(k.existing[1].structured, k.structured, docs[k.entity_id].structured)
            /\ k.has_content =>
                  ShallowMerge(k.existing[1].content, k.content, docs[k.entity_id].content)

\* a merging call done whose S and C each replace a stored key and leave
\* another stored key alone
C11_Witness ==
    \E c \in CallIds :
        LET k == calls[c] IN
        /\ k.op = "update_document" /\ k.pc = "done" /\ k.existing # <<>> /\ k.merge
        /\ ~k.has_metadata /\ k.has_structured /\ k.has_content
        /\ DOMAIN k.structured \cap DOMAIN k.existing[1].structured # {}
        /\ DOMAIN k.existing[1].structured \ DOMAIN k.structured # {}
        /\ k.existing[1].structured # docs[k.entity_id].structured
        /\ DOMAIN k.content \cap DOMAIN k.existing[1].content # {}
        /\ DOMAIN k.existing[1].content \ DOMAIN k.content # {}

\* C12: after update_document(entity_id, content=C, structured=S, metadata=M,
\* merge=False) on an existing document the stored content is C, the stored
\* structured is S, and the stored metadata holds no earlier key that M lacks,
\* updated_at aside.
C12_ReplaceIsWholesale ==
    \A c \in CallIds :
        LET k == calls[c] IN
        (k.op = "update_document" /\ k.pc = "done" /\ k.existing # <<>> /\ ~k.merge
            /\ k.has_content /\ k.has_structured /\ k.has_metadata) =>
            /\ k.entity_id \in DOMAIN docs
            /\ docs[k.entity_id].content = k.content
            /\ docs[k.entity_id].structured = k.structured
            /\ \A key \in DOMAIN k.existing[1].metadata \ (DOMAIN k.metadata \cup {"updated_at"}) :
                  key \notin DOMAIN docs[k.entity_id].metadata

\* C13: an update_document call that finds no document of its entity_id
\* returns False and leaves the collection as it is: no document is created
\* and every document, its version included, stays unchanged.
C13_UpdateMissingChangesNothing ==
    [][\A c \in CallIds :
          (calls[c].op = "update_document" /\ calls[c].pc = "ud_read"
              /\ calls'[c].pc # "ud_read" /\ calls[c].entity_id \notin DOMAIN docs) =>
              /\ calls'[c].pc = "done"
              /\ calls'[c].ret = Returned(FALSE)
              /\ docs' = docs]_vars

\* an update_document call has returned False for an entity without a
\* document while another entity has one
C13_Witness ==
    \E c \in CallIds :
        /\ calls[c].op = "update_document" /\ calls[c].pc = "done"
        /\ calls[c].existing = <<>> /\ calls[c].ret = Returned(FALSE)
        /\ calls[c].entity_id \notin DOMAIN docs
        /\ DOMAIN docs # {}

\* the attributes of a structured_data map that hold a value
Populated(structured_data) == {a \in DOMAIN structured_data : Truthy(structured_data[a])}

GroupNames == {ATTRIBUTE_GROUPS[i][1] : i \in DOMAIN ATTRIBUTE_GROUPS}
Members(group_name) ==
    UNION {SeqToSet(ATTRIBUTE_GROUPS[i][2]) :
               i \in {j \in DOMAIN ATTRIBUTE_GROUPS : ATTRIBUTE_GROUPS[j][1] = group_name}}
Grouped == UNION {Members(g) : g \in GroupNames}

\* a chunk of one line is an attribute's own; a longer one is a group's, its
\* members listed after the heading
OwnChunk(chunk) == Len(chunk.text) = 1
Lists(chunk, a) ==
    IF OwnChunk(chunk) THEN chunk.text[1][2] = a
    ELSE \E i \in 2..Len(chunk.text) : chunk.text[i][1] = a

\* C14: create_attribute_chunks emits nothing for an attribute whose value is
\* empty or falsy: no chunk of its own, no chunk of a group whose present
\* members are all empty, and no mention in any chunk's text, for grouped and
\* ungrouped attributes alike.
C14_NoChunkForEmptyAttribute ==
    generated.called =>
        LET sd == generated.structured_data
            chunks == generated.chunks
        IN /\ \A a \in DOMAIN sd \ Populated(sd), i \in DOMAIN chunks : ~Lists(chunks[i], a)
           /\ \A i \in DOMAIN chunks :
                 ~OwnChunk(chunks[i]) =>
                     Members(chunks[i].attribute_name[1]) \cap Populated(sd) # {}

\* C15: with group_attributes=True the chunks partition the populated
\* attributes: one chunk per group with a populated member, named after the
\* group and listing its present members, one chunk per populated attribute of
\* no group, named after it, and no others.
C15_ChunksPartitionAttributes ==
    (generated.called /\ generated.group_attributes) =>
        LET sd == generated.structured_data
            chunks == generated.chunks
            groups == {g \in GroupNames : Members(g) \cap Populated(sd) # {}}
            singles == Populated(sd) \ Grouped
        IN /\ Len(chunks) = Cardinality(groups) + Cardinality(singles)
           /\ \A g \in groups :
                 \E i \in DOMAIN chunks :
                     /\ ~OwnChunk(chunks[i]) /\ chunks[i].attribute_name = <<g>>
                     /\ \A a \in Members(g) \cap DOMAIN sd : Lists(chunks[i], a)
           /\ \A a \in singles :
                 \E i \in DOMAIN chunks : OwnChunk(chunks[i]) /\ chunks[i].attribute_name = <<a>>
           /\ \A a \in Populated(sd) :
                 Cardinality({i \in DOMAIN chunks : Lists(chunks[i], a)}) = 1

\* C16: after add_relationship(a, b, T) for existing entities a and b, called
\* once or again, there is exactly one edge of type T from a to b; it carries
\* the properties of the call and its updated_at is the time of the call.
C16_OneEdgePerType ==
    \A c \in CallIds :
        LET k == calls[c]
            found == EdgesBetween(rels, k.entity_id, k.rel_type, k.target_id)
        IN (k.op = "add_relationship" /\ k.pc = "done" /\ k.ret.kind # "raise"
               /\ k.entity_id \in DOMAIN graph /\ k.target_id \in DOMAIN graph) =>
               /\ Cardinality(found) = 1
               /\ \A x \in found :
                     /\ rels[x] = 1
                     /\ x.props["updated_at"] = Time(clock)
                     /\ \A key \in DOMAIN k.properties : x.props[key] = k.properties[key]

\* a second call on an edge an earlier call created with another property, at
\* a later time
C16_Witness ==
    \E c \in CallIds :
        LET k == calls[c]
            found == EdgesBetween(rels, k.entity_id, k.rel_type, k.target_id)
        IN /\ k.op = "add_relationship" /\ k.pc = "done" /\ k.ret.kind # "raise"
           /\ k.properties = SinceProp
           /\ clock > 0
           /\ \E x \in found : "role" \in DOMAIN x.props /\ "since" \in DOMAIN x.props
           /\ \E x \in DOMAIN rels : x.rel_type # k.rel_type

\* C17: add_relationship whose source or target entity does not exist ends in
\* an error reported to the caller, and creates no edge and no entity.
C17_MissingEndpointFails ==
    \A c \in CallIds :
        LET k == calls[c] IN
        (k.op = "add_relationship" /\ k.pc = "done"
            /\ (k.entity_id \notin DOMAIN graph \/ k.target_id \notin DOMAIN graph)) =>
            /\ k.ret.kind = "raise"
            /\ EdgesBetween(rels, k.entity_id, k.rel_type, k.target_id) = {}

\* C18: add_entity on an existing entity keeps every property of it that is
\* not name, type or a passed property (created_at and embeddings_generated
\* among them), and changes no other entity and no relationship.
C18_AddEntityErasesNothing ==
    [][\A c \in CallIds :
          (calls[c].pc = "idle" /\ calls'[c].op = "add_entity" /\ calls'[c].pc = "done"
              /\ calls'[c].entity_id \in DOMAIN graph) =>
              LET e == calls'[c].entity_id IN
              /\ e \in DOMAIN graph'
              /\ \A key \in DOMAIN graph[e] \ ({"name", "type"} \cup DOMAIN calls'[c].properties) :
                    key \in DOMAIN graph'[e] /\ graph'[e][key] = graph[e][key]
              /\ \A n \in DOMAIN graph \ {e} : n \in DOMAIN graph' /\ graph'[n] = graph[n]
              /\ DOMAIN graph' = DOMAIN graph
              /\ rels' = rels]_vars

\* C19: in add_new_entity a relationship whose add_relationship raises does
\* not end the call: the node and the document stay, the call goes on with the
\* remaining relationships and then with process_entity, and raises nothing.
C19_RelationshipFailureIsContained ==
    [][\A c \in CallIds :
          (calls[c].op = "add_new_entity" /\ calls[c].pc = "ane_rel" /\ calls'[c] # calls[c]) =>
              /\ calls'[c].pc \in {"ane_rel", "pe_get"}
              /\ calls'[c].relationships = Tail(calls[c].relationships)
              /\ calls'[c].ret.kind # "raise"
              /\ graph' = graph
              /\ docs' = docs]_vars

\* C20: when create_document fails in add_new_entity the call ends with the
\* error raised to the caller; the node add_entity wrote stays as it was
\* written, and there is no document, no relationship and no chunk of the new
\* entity_id.
C20_DocumentFailureLeavesOrphan ==
    [][\A c \in CallIds :
          (calls[c].op = "add_new_entity" /\ calls[c].pc = "ane_doc" /\ calls'[c].pc = "done") =>
              LET k == calls[c]
                  e == k.entity_id
                  props == EntityProps(e, Str(k.entity_type), Str(k.entity_name), k.structured,
                                       clock)
                  node == props["id"].items[1]
              IN /\ calls'[c].ret.kind = "raise"
                 /\ graph' = graph
                 /\ node \in DOMAIN graph'
                 /\ \A key \in DOMAIN props : graph'[node][key] = props[key]
                 /\ e \notin DOMAIN docs'
                 /\ \A x \in BagToSet(rels') : x.source_id # e /\ x.target_id # e
                 /\ ChunkCount(vector', e) = 0]_vars

C20_Witness ==
    \E c \in CallIds :
        /\ calls[c].op = "add_new_entity" /\ calls[c].pc = "done"
        /\ calls[c].ret.kind = "raise"
        /\ calls[c].relationships # <<>>
        /\ calls[c].entity_id \in DOMAIN graph
        /\ calls[c].entity_id \notin DOMAIN docs
        /\ rels # EmptyBag

\* C21: process_entity on an entity_id without a document ends with the error
\* raised to the caller and changes no store, whatever force_regenerate is.
C21_ProcessMissingChangesNothing ==
    [][\A c \in CallIds :
          (calls[c].op = "process_entity" /\ calls[c].pc = "pe_get"
              /\ calls[c].entity_id \notin DOMAIN docs /\ calls'[c] # calls[c]) =>
              /\ calls'[c].pc = "done"
              /\ calls'[c].ret.kind = "raise"
              /\ vector' = vector
              /\ graph' = graph
              /\ docs' = docs
              /\ rels' = rels]_vars

C21_Witness ==
    \E c \in CallIds :
        /\ calls[c].op = "process_entity" /\ calls[c].pc = "done"
        /\ calls[c].ret.kind = "raise"
        /\ calls[c].force_regenerate
        /\ calls[c].entity_id \in DOMAIN graph
        /\ ChunkCount(vector, calls[c].entity_id) > 0

\* C22: process_batch(entity_ids) fills one slot per entity_id in input order;
\* the slot of an entity whose process_entity raised (it has no document)
\* holds the entity_id and an error, every other slot holds the chunk counts
\* of that entity's document, and the batch returns with all slots filled.
C22_BatchReportsEveryEntity ==
    \A c \in CallIds :
        calls[c].op = "process_batch" =>
            LET k == calls[c]
                n == Len(k.batch_results) IN
            /\ n <= Len(k.entity_ids)
            /\ \A i \in 1..n :
                  LET r == k.batch_results[i]
                      e == k.entity_ids[i] IN
                  /\ r.entity_id = e
                  /\ r.error <=> e \notin DOMAIN docs
                  /\ ~r.error =>
                        LET chunks == generate_all_chunks(e, docs[e], TRUE, TRUE, TRUE) IN
                        /\ r.chunk_count = Len(chunks)
                        /\ r.global_chunks = 1
                        /\ r.attribute_chunks = Len(chunks) - 1
                        /\ k.pc = "done" => ChunkCount(vector, e) >= Len(chunks)
            /\ k.pc = "done" => n = Len(k.entity_ids) /\ k.ret.kind = "value"

C22_Witness ==
    \E c \in CallIds :
        /\ calls[c].op = "process_batch" /\ calls[c].pc = "done"
        /\ Len(calls[c].batch_results) = 3
        /\ ~calls[c].batch_results[1].error
        /\ calls[c].batch_results[2].error
        /\ ~calls[c].batch_results[3].error
        /\ calls[c].batch_results[3].chunk_count > 1

\* C23: the list search_similar_entities returns is in descending order of
\* score, also when several hits of one entity were collapsed into one result.
C23_ResultsDescend ==
    \A i \in DOMAIN results :
        i + 1 \in DOMAIN results => results[i].score >= results[i + 1].score

\* two results of different scores, out of hits of which one entity had more
\* than one, its best one not being the first hit
C23_Witness ==
    /\ Len(results) = 2
    /\ results[1].score > results[2].score
    /\ Len(hits) > 2
    /\ \E i, j \in DOMAIN hits :
          i # j /\ hits[i].entity_id = hits[j].entity_id
               /\ hits[i].entity_id = results[2].entity_id

\* C24: a search called with an entity_type returns only results of that
\* entity_type.
C24_ResultsOfRequestedType ==
    query.entity_type # <<>> =>
        \A i \in DOMAIN results : results[i].entity_type = query.entity_type[1]

\* C25: in every state, also in the middle of an add_new_entity call, an
\* entity_id that has a chunk in the VectorStore has its document in the
\* DocumentStore and its entity in the GraphStore.
C25_ChunksAfterDocumentAndEntity ==
    \A e \in EntityIds :
        ChunkCount(vector, e) > 0 => e \in DOMAIN docs /\ e \in DOMAIN graph

\* C26: once update_entity_embeddings(E, updated_attributes,
\* regenerate_all=True) has returned, the document of E holds the merged
\* attributes under a bumped version, and the chunks stored for E are exactly
\* the chunks generate_all_chunks derives from that document.
C26_RegeneratedChunksMatchDocument ==
    \A c \in CallIds :
        LET k == calls[c]
            e == k.entity_id IN
        (k.op = "update_entity_embeddings" /\ k.force_regenerate /\ k.pc = "done"
            /\ k.ret.kind = "value") =>
            /\ e \in DOMAIN docs
            /\ k.has_structured =>
                  /\ \A key \in DOMAIN k.structured :
                        Get(docs[e].structured, key, NoneVal) = k.structured[key]
                  /\ docs[e].version = k.existing[1].version + 1
            /\ MatchingChunks(vector, e, <<>>) =
                  SeqToBag(generate_all_chunks(e, docs[e], TRUE, TRUE, TRUE))

\* C27: once two process_entity(E, force_regenerate=True) calls on one entity
\* have both completed, however their store calls interleaved, the
\* VectorStore holds exactly one global chunk of E and exactly the chunks one
\* call derives from E's document.
C27_ConcurrentRegenerationConverges ==
    \A c, d \in CallIds :
        LET e == calls[c].entity_id IN
        (c # d /\ calls[d].entity_id = e
            /\ \A x \in {c, d} : /\ calls[x].op = "process_entity"
                                  /\ calls[x].force_regenerate
                                  /\ calls[x].pc = "done"
                                  /\ calls[x].ret.kind = "value") =>
            /\ GlobalCount(vector, e) = 1
            /\ MatchingChunks(vector, e, <<>>) =
                  SeqToBag(generate_all_chunks(e, docs[e], TRUE, TRUE, TRUE))

\* C28: once process_entity(E) has returned for an entity E of the GraphStore,
\* the node's embeddings_generated is true and its embedding_chunk_count is
\* the number of chunks the VectorStore holds for E, whatever force_regenerate
\* was and whatever calls came before.
C28_ChunkCountMatchesStore ==
    \A c \in CallIds :
        LET k == calls[c]
            e == k.entity_id IN
        (k.op = "process_entity" /\ k.pc = "done" /\ k.ret.kind = "value"
            /\ e \in DOMAIN graph) =>
            /\ Get(graph[e], "embeddings_generated", NoneVal) = Bool(TRUE)
            /\ Get(graph[e], "embedding_chunk_count", NoneVal) = IntVal(ChunkCount(vector, e))

\* C29: no step of an update_entity_embeddings call on an entity_id without a
\* document changes a store, and the call ends with the error raised to the
\* caller.
C29_UpdateMissingChangesNothing ==
    [][\A c \in CallIds :
          (calls[c].op = "update_entity_embeddings" /\ calls[c].pc \notin {"idle", "done"}
              /\ calls[c].entity_id \notin DOMAIN docs) =>
              /\ graph' = graph
              /\ docs' = docs
              /\ vector' = vector
              /\ rels' = rels
              /\ calls'[c].pc = "done" => calls'[c].ret.kind = "raise"]_vars

\* C30: the attribute chunks one create_attribute_chunks call emits have
\* pairwise different attribute_name values, whatever the keys of
\* structured_data are.
C30_AttributeNamesDistinct ==
    generated.called =>
        \A i, j \in DOMAIN generated.chunks :
            generated.chunks[i].attribute_name = generated.chunks[j].attribute_name => i = j

=============================================================================
